---- MODULE Spec2Model ----
(***************************************************************************)
(* Sunshine Display Manager (update_sunshine_display.py and                *)
(* auto_update_sunshine_display.py) as state machines.                     *)
(*                                                                         *)
(* Text is modelled as a sequence of tokens.  A token is one character,    *)
(* except Key, which stands for the literal text "output_name" (the only   *)
(* multi-character literal the regular expressions of the program name).   *)
(*                                                                         *)
(*   SpecStore   the config store: update_sunshine_config and              *)
(*               get_current_sunshine_display on a config file             *)
(*   SpecEnum    the display enumerator: get_displays                      *)
(*   SpecRestart the service controller: restart_sunshine                  *)
(*   SpecPass    the commands: cmd_update, cmd_watch and the auto-update   *)
(*               script's main                                             *)
(***************************************************************************)
EXTENDS Integers, Sequences, FiniteSets, TLC

VARIABLES
    \* ---- config file ($HOME/.config/sunshine/sunshine.conf)
    fileExists,     \* config_path.exists()
    conf,           \* the file's content
    \* ---- SpecStore bookkeeping
    arg,            \* the display id the calls are made with
    before,         \* [exists, content] of the file before the last write
    nWrites,        \* update_sunshine_config calls so far
    readVal,        \* what the last get_current_sunshine_display returned
    \* ---- get_displays
    enumState,      \* "idle", "running", "returned" or "raised"
    attempt,        \* the loop variable of get_displays
    runs,           \* system_profiler invocations so far
    sleeps,         \* time.sleep(retry_delay) calls so far
    lastOutcome,    \* what the last system_profiler run came to
    entries,        \* the display entries of the last output that parsed
    parsed,         \* the records built from the last output that parsed
    displays,       \* the value get_displays returned
    \* ---- restart_sunshine
    rPc,            \* the step restart_sunshine is at
    service,        \* sunshine_service, as detect_sunshine_service returned it
    rOk,            \* the first component of the result
    rMsg,           \* the second component of the result
    rSucceeded,     \* the strategy whose command succeeded, 0 for none
    cmdLog,         \* the commands executed so far, in order
    outLog,         \* what each command of cmdLog came to
    \* ---- the commands: cmd_update, cmd_watch, main of the auto-update script
    cmd,            \* "update", "watch" or "auto"
    daemon,         \* args.daemon
    noRestartArg,   \* --no-restart on the command line
    settings,       \* display_config.json
    target,         \* display_name / target_display_name
    checkInterval,  \* check_interval
    noRestart,      \* no_restart
    pc,             \* the statement the command is at
    outcome,        \* "running", "exit0", "exit1", "exception", "interrupt"
    display,        \* what find_display_by_name returned in this pass
    resolved,       \* how the find_display_by_name of this pass ended: "none"
                    \* (not called yet), "found", "notfound" or "raised"
    currentId,      \* current_id of this pass
    passes,         \* reconcile passes started so far
    passFile,       \* [exists, content] of the config file when the pass began
    passEnsures,    \* ensure_sunshine_running calls of this pass
    ensureOk,       \* "none", or what ensure_sunshine_running returned in it
    passResolves,   \* find_display_by_name calls of this pass
    passWrites,     \* update_sunshine_config calls of this pass
    passRestarts,   \* restart_sunshine calls of this pass
    restartOk,      \* "none", or what restart_sunshine returned in this pass
    touched,        \* a display query, config write or service command was made
    prevDisplay,    \* the display the iteration of watch before this one ran
                    \* to its end with, NoDisplay when there is none
    interrupted     \* KeyboardInterrupt was raised

storeVars == <<fileExists, conf, arg, before, nWrites, readVal>>
enumVars == <<enumState, attempt, runs, sleeps, lastOutcome, entries, parsed,
              displays>>
restartVars == <<rPc, service, rOk, rMsg, rSucceeded, cmdLog, outLog>>

passVars == <<cmd, daemon, noRestartArg, settings, target, checkInterval,
              noRestart, pc, outcome, display, resolved, currentId, passes,
              passFile,
              passEnsures, ensureOk, passResolves, passWrites, passRestarts,
              restartOk,
              touched, prevDisplay, interrupted>>

vars == <<storeVars, enumVars, restartVars, passVars>>

(***************************************************************************)
(* Bounds                                                                  *)
(***************************************************************************)
MaxConfLines == 3   \* lines of an initial config file
MaxIdLen == 2       \* characters of a raw display identifier
MaxWrites == 2      \* update_sunshine_config calls in one SpecStore run
MaxDisplays == 1    \* display entries in one system_profiler output
MaxListing == 2     \* lines of a `brew services list` output
MaxPasses == 2      \* reconcile passes of one run of a command
MaxPassDisplays == 2 \* displays attached during a reconcile pass

(***************************************************************************)
(* Text                                                                    *)
(***************************************************************************)
Key == "output_name"
NL == "\n"
SP == " "

\* the characters Python's \s matches, among the tokens used here
WS == {SP, NL}

\* characters a raw _spdisplays_displayID is made of: a hex digit, a character
\* that is no hex digit, and a blank
RawChars == {"a", "x", SP}

SeqsUpTo(S, n) == UNION {[1..k -> S] : k \in 0..n}

\* Python's None, as a value no text equals
None == <<"None">>

\* first index j >= i with j > Len(s) or s[j] not whitespace: the end of a
\* greedy \s* started at i
RECURSIVE SkipWS(_, _)
SkipWS(s, i) ==
    IF i > Len(s) \/ s[i] \notin WS THEN i ELSE SkipWS(s, i + 1)

\* first index j >= i with j > Len(s) or s[j] = "\n": the end of a greedy .*
\* started at i ('.' matches everything but the newline), where $ then holds
RECURSIVE EndOfLine(_, _)
EndOfLine(s, i) ==
    IF i > Len(s) \/ s[i] = NL THEN i ELSE EndOfLine(s, i + 1)

\* first index j >= i with j > Len(s) or s[j] whitespace: the end of a greedy
\* \S+ started at i
RECURSIVE EndOfWord(_, _)
EndOfWord(s, i) ==
    IF i > Len(s) \/ s[i] \in WS THEN i ELSE EndOfWord(s, i + 1)

\* ^ under re.MULTILINE: the start of the text or just after a newline
AtLineStart(s, i) == i = 1 \/ s[i - 1] = NL

Drop(s, i) == SubSeq(s, i, Len(s))     \* s[i:] with 1-based i

(***************************************************************************)
(* Display identifiers: get_displays, lines 62-69                          *)
(***************************************************************************)
HexDigits == {"0", "1", "2", "3", "4", "5", "6", "7", "8", "9",
              "a", "b", "c", "d", "e", "f"}

HexValue(c) ==
    CASE c = "0" -> 0 [] c = "1" -> 1 [] c = "2" -> 2 [] c = "3" -> 3
      [] c = "4" -> 4 [] c = "5" -> 5 [] c = "6" -> 6 [] c = "7" -> 7
      [] c = "8" -> 8 [] c = "9" -> 9 [] c = "a" -> 10 [] c = "b" -> 11
      [] c = "c" -> 12 [] c = "d" -> 13 [] c = "e" -> 14 [] c = "f" -> 15

DecDigit == <<"0", "1", "2", "3", "4", "5", "6", "7", "8", "9">>

\* str(n) for n >= 0
RECURSIVE Str(_)
Str(n) ==
    IF n < 10 THEN <<DecDigit[n + 1]>>
    ELSE Str(n \div 10) \o <<DecDigit[(n % 10) + 1]>>

\* s.strip(): int() ignores blanks around the digits
RECURSIVE RStrip(_)
RStrip(s) ==
    IF s # <<>> /\ s[Len(s)] \in WS THEN RStrip(SubSeq(s, 1, Len(s) - 1)) ELSE s

Strip(s) == RStrip(Drop(s, SkipWS(s, 1)))

\* int(s, 16) of a text of hex digits, most significant first
RECURSIVE HexInt(_)
HexInt(s) ==
    IF s = <<>> THEN 0
    ELSE 16 * HexInt(SubSeq(s, 1, Len(s) - 1)) + HexValue(s[Len(s)])

\* int(raw, 16) raises ValueError
NotHex(raw) ==
    \/ Strip(raw) = <<>>
    \/ \E i \in 1..Len(Strip(raw)) : Strip(raw)[i] \notin HexDigits

\* lines 65-69 without the conversion: the raw identifier is the id
DisplayId_verbatim(raw) == raw

\* lines 65-69: display_id of a raw identifier
DisplayId(raw) == IF NotHex(raw) THEN raw ELSE Str(HexInt(Strip(raw)))

\* every id get_displays can put in a record, within the bound
Ids == {DisplayId(raw) : raw \in SeqsUpTo(RawChars, MaxIdLen)}

(***************************************************************************)
(* Config store: update_sunshine_config, get_current_sunshine_display      *)
(***************************************************************************)
\* line 146: new_line = f"output_name = {display_id}"
NewLine(id) == <<Key, SP, "=", SP>> \o id

\* Where a match of  ^output_name\s*=\s*.*$  (re.MULTILINE) that starts at i
\* ends (the index after its last token), 0 when there is none.  \s also
\* matches the newline, so both \s* may run over line ends; each greedy
\* choice succeeds at once or not at all, so there is no backtracking.
WriteMatchEnd(s, i) ==
    IF i <= Len(s) /\ AtLineStart(s, i) /\ s[i] = Key
    THEN LET j == SkipWS(s, i + 1)
         IN  IF j <= Len(s) /\ s[j] = "="
             THEN EndOfLine(s, SkipWS(s, j + 1))
             ELSE 0
    ELSE 0

\* line 148: re.search(output_name_pattern, content, re.MULTILINE)
WriteSearch(s) == \E i \in 1..Len(s) : WriteMatchEnd(s, i) # 0

\* line 150: re.sub(output_name_pattern, new_line, content, flags=re.MULTILINE),
\* from index i on: every non-overlapping match, left to right, is replaced
RECURSIVE SubFrom(_, _, _)
SubFrom(s, i, new) ==
    IF i > Len(s) THEN <<>>
    ELSE IF WriteMatchEnd(s, i) # 0
         THEN new \o SubFrom(s, WriteMatchEnd(s, i), new)
         ELSE <<s[i]>> \o SubFrom(s, i + 1, new)

\* update_sunshine_config without the re.search / re.sub branch: the new line
\* is always appended
update_sunshine_config_always_append(exists, content0, id) ==
    LET content == IF exists THEN content0 ELSE <<>>
    IN  (IF content # <<>> /\ content[Len(content)] # NL
         THEN content \o <<NL>> ELSE content) \o NewLine(id) \o <<NL>>

\* lines 138-155: new_content, from whether the file exists, its content and
\* the id
update_sunshine_config(exists, content0, id) ==
    LET content == IF exists THEN content0 ELSE <<>>
    IN  IF WriteSearch(content)
        THEN SubFrom(content, 1, NewLine(id))
        ELSE (IF content # <<>> /\ content[Len(content)] # NL
              THEN content \o <<NL>> ELSE content) \o NewLine(id) \o <<NL>>

\* Where group 1 of a match of  ^output_name\s*=\s*(\S+)  starting at i starts,
\* 0 when there is no match at i
ReadGroupStart(s, i) ==
    IF i <= Len(s) /\ AtLineStart(s, i) /\ s[i] = Key
    THEN LET j == SkipWS(s, i + 1)
         IN  IF j <= Len(s) /\ s[j] = "="
             THEN (IF SkipWS(s, j + 1) <= Len(s) THEN SkipWS(s, j + 1) ELSE 0)
             ELSE 0
    ELSE 0

\* lines 164-181: the stored id, None when the file or the line is missing
get_current_sunshine_display(exists, content) ==
    IF ~exists \/ \A i \in 1..Len(content) : ReadGroupStart(content, i) = 0
    THEN None
    ELSE LET i == CHOOSE k \in 1..Len(content) :
                    /\ ReadGroupStart(content, k) # 0
                    /\ \A m \in 1..(k - 1) : ReadGroupStart(content, m) = 0
             g == ReadGroupStart(content, i)
         IN  SubSeq(content, g, EndOfWord(content, g) - 1)

(***************************************************************************)
(* Config files                                                            *)
(***************************************************************************)
\* the lines an initial config file is made of: a blank line, a line of another
\* setting, an output_name line, an output_name line with an empty value, and
\* a line that holds the key but not at its start
ConfLines == {<<>>, <<"1">>, <<Key, SP, "=", SP, "1">>, <<Key, SP, "=">>,
              <<"1", Key, "=", "1">>}

RECURSIVE JoinLines(_)
JoinLines(ls) ==
    IF ls = <<>> THEN <<>> ELSE ls[1] \o <<NL>> \o JoinLines(Tail(ls))

\* files of up to MaxConfLines lines, the last with or without its newline
ConfFiles ==
    LET full == {JoinLines(ls) : ls \in SeqsUpTo(ConfLines, MaxConfLines)}
    IN  full \cup {SubSeq(f, 1, Len(f) - 1) : f \in full \ {<<>>}}

\* the lines of a text, without their newlines (str.splitlines)
RECURSIVE Lines(_)
Lines(s) ==
    IF s = <<>> THEN <<>>
    ELSE <<SubSeq(s, 1, EndOfLine(s, 1) - 1)>> \o Lines(Drop(s, EndOfLine(s, 1) + 1))

\* a line of the form  output_name = ...
IsOutputNameLine(l) ==
    /\ l # <<>>
    /\ l[1] = Key
    /\ SkipWS(l, 2) <= Len(l)
    /\ l[SkipWS(l, 2)] = "="

OutputNameLines(s) == SelectSeq(Lines(s), IsOutputNameLine)
OtherLines(s) == SelectSeq(Lines(s), LAMBDA l : ~IsOutputNameLine(l))

(***************************************************************************)
(* SpecStore: calls of the config store, with one id, on a config file     *)
(***************************************************************************)
StoreIdle ==
    /\ fileExists = FALSE
    /\ conf = <<>>
    /\ arg = <<>>
    /\ before = [exists |-> FALSE, content |-> <<>>]
    /\ nWrites = 0
    /\ readVal = None

EnumIdle ==
    /\ enumState = "idle"
    /\ attempt = 0
    /\ runs = 0
    /\ sleeps = 0
    /\ lastOutcome = "none"
    /\ entries = <<>>
    /\ parsed = <<>>
    /\ displays = <<>>

RestartIdle ==
    /\ rPc = "idle"
    /\ service = "none"
    /\ rOk = FALSE
    /\ rMsg = ""
    /\ rSucceeded = 0
    /\ cmdLog = <<>>
    /\ outLog = <<>>

\* find_display_by_name returned None
NoDisplay == [name |-> None, id |-> None]

\* display_config.json: kind is "missing" (no such file), "malformed" (no
\* JSON) or "object"; the other fields are the keys of the object
NoSettings ==
    [kind |-> "missing", hasTarget |-> FALSE, target_display |-> <<>>,
     hasInterval |-> FALSE, check_interval_seconds |-> [number |-> TRUE, value |-> 0],
     no_auto_restart |-> FALSE]

PassIdle ==
    /\ cmd = "none"
    /\ daemon = FALSE
    /\ noRestartArg = FALSE
    /\ settings = NoSettings
    /\ target = <<>>
    /\ checkInterval = [number |-> TRUE, value |-> 0]
    /\ noRestart = FALSE
    /\ pc = "idle"
    /\ outcome = "running"
    /\ display = NoDisplay
    /\ resolved = "none"
    /\ currentId = None
    /\ passes = 0
    /\ passFile = [exists |-> FALSE, content |-> <<>>]
    /\ passEnsures = 0
    /\ ensureOk = "none"
    /\ passResolves = 0
    /\ passWrites = 0
    /\ passRestarts = 0
    /\ restartOk = "none"
    /\ touched = FALSE
    /\ prevDisplay = NoDisplay
    /\ interrupted = FALSE

StoreInit ==
    /\ EnumIdle
    /\ RestartIdle
    /\ PassIdle
    /\ fileExists \in BOOLEAN
    /\ conf \in ConfFiles
    /\ fileExists = FALSE => conf = <<>>
    /\ arg \in Ids
    /\ before = [exists |-> fileExists, content |-> conf]
    /\ nWrites = 0
    /\ readVal = None

\* update_sunshine_config(arg): the file is created if missing and overwritten
WriteOutputName ==
    /\ nWrites < MaxWrites
    /\ before' = [exists |-> fileExists, content |-> conf]
    /\ conf' = update_sunshine_config(fileExists, conf, arg)
    /\ fileExists' = TRUE
    /\ nWrites' = nWrites + 1
    /\ UNCHANGED <<arg, readVal, enumVars, restartVars, passVars>>

\* get_current_sunshine_display()
ReadOutputName ==
    /\ readVal' = get_current_sunshine_display(fileExists, conf)
    /\ UNCHANGED <<fileExists, conf, arg, before, nWrites, enumVars, restartVars, passVars>>

StoreNext ==
    \/ WriteOutputName
    \/ ReadOutputName

SpecStore == StoreInit /\ [][StoreNext]_vars

\* C6: update_sunshine_config changes nothing but the output_name line: the
\* lines that are no output_name line are the same, in the same order,
\* before and after a write.
C6_OtherLinesPreserved ==
    nWrites >= 1 => OtherLines(conf) = OtherLines(before.content)

C8_Idempotent ==
    nWrites >= 2 => conf = before.content

(***************************************************************************)
(* Display enumerator: get_displays                                        *)
(***************************************************************************)
\* get_displays(retries=3, ...): every caller uses the default
Retries == 3

\* names of display entries: "TV", "tv", and the default "Unknown" of an entry
\* without _name, as one token
EnumNames == {<<"T", "V">>, <<"t", "v">>, <<"Unknown">>}

\* the display entries of one system_profiler output: _name and
\* _spdisplays_displayID of each
RawEntries == [name : EnumNames, raw : SeqsUpTo(RawChars, MaxIdLen)]

\* the entry lists of the outputs that parse
EnumOutputs == SeqsUpTo(RawEntries, MaxDisplays)

\* lines 59-79: the records built from the entries of an output
RECURSIVE BuildDisplays(_)
BuildDisplays(es) ==
    IF es = <<>> THEN <<>>
    ELSE <<[name |-> es[1].name, id |-> DisplayId(es[1].raw)]>>
         \o BuildDisplays(Tail(es))

\* What one subprocess.run of system_profiler and the parse of its output can
\* come to:
\*   "empty"      exit 0 and blank output                      (line 51)
\*   "parsed"     exit 0 and output of the expected structure  (lines 57-82)
\*   "exit"       non-zero exit: CalledProcessError            (line 87)
\*   "timeout"    TimeoutExpired                               (line 92)
\*   "json"       output that is no JSON: JSONDecodeError      (line 97)
\*   "oserror"    the tool is missing or cannot be run: FileNotFoundError or
\*                another OSError of subprocess.run, which no except clause
\*                of get_displays names
\*   "shape"      JSON of another structure (a list, an entry that is no
\*                object): AttributeError or TypeError, not caught either
RetriedOutcomes == {"exit", "timeout", "json"}
UncaughtOutcomes == {"oserror", "shape"}

EnumInit ==
    /\ StoreIdle
    /\ RestartIdle
    /\ PassIdle
    /\ enumState = "running"
    /\ attempt = 0
    /\ runs = 0
    /\ sleeps = 0
    /\ lastOutcome = "none"
    /\ entries = <<>>
    /\ parsed = <<>>
    /\ displays = <<>>

\* lines 84-85, 91, 96, 101: time.sleep(retry_delay) and the next attempt
EnumRetry ==
    /\ sleeps' = sleeps + 1
    /\ attempt' = attempt + 1
    /\ UNCHANGED <<enumState, displays>>

EnumReturn(ds) ==
    /\ enumState' = "returned"
    /\ displays' = ds
    /\ UNCHANGED <<attempt, sleeps>>

\* lines 41-42: the next attempt of range(retries) runs.  With retries >= 1
\* the last attempt returns or raises on every path, so the return of line
\* 103, after the loop, is never reached.
EnumRunning == enumState = "running" /\ attempt < Retries

\* lines 51-55: blank output
EnumEmptyOutput ==
    /\ EnumRunning
    /\ runs' = runs + 1
    /\ lastOutcome' = "empty"
    /\ IF attempt < Retries - 1 THEN EnumRetry ELSE EnumReturn(<<>>)
    /\ UNCHANGED <<entries, parsed, storeVars, restartVars, passVars>>

\* lines 57-85: output that parses, es being its display entries
EnumParsed(es) ==
    /\ EnumRunning
    /\ runs' = runs + 1
    /\ lastOutcome' = "parsed"
    /\ entries' = es
    /\ parsed' = BuildDisplays(es)
    /\ IF parsed' # <<>> \/ attempt >= Retries - 1
       THEN EnumReturn(parsed')
       ELSE EnumRetry
    /\ UNCHANGED <<storeVars, restartVars, passVars>>

\* lines 87-101: the three exceptions get_displays catches
EnumCaught(o) ==
    /\ EnumRunning
    /\ runs' = runs + 1
    /\ lastOutcome' = o
    /\ IF attempt >= Retries - 1 THEN EnumReturn(<<>>) ELSE EnumRetry
    /\ UNCHANGED <<entries, parsed, storeVars, restartVars, passVars>>

\* an exception no except clause of get_displays names leaves the function
EnumUncaught(o) ==
    /\ EnumRunning
    /\ runs' = runs + 1
    /\ lastOutcome' = o
    /\ enumState' = "raised"
    /\ UNCHANGED <<attempt, sleeps, entries, parsed, displays, storeVars,
                   restartVars, passVars>>

EnumNext ==
    \/ EnumEmptyOutput
    \/ EnumRunning /\ \E es \in EnumOutputs : EnumParsed(es)
    \/ \E o \in RetriedOutcomes : EnumCaught(o)
    \/ \E o \in UncaughtOutcomes : EnumUncaught(o)

SpecEnum == EnumInit /\ [][EnumNext]_vars

\* C10: get_displays never fails its caller, whatever each run of the OS
\* query comes to: no exception leaves it, it runs the query at most
\* `retries` times, it returns the records of the first output that holds a
\* display, and the empty list otherwise.
C10_EnumNeverFails ==
    /\ enumState # "raised"
    /\ runs <= Retries
    /\ enumState = "running" => parsed = <<>>
    /\ enumState = "returned" => displays = parsed

(***************************************************************************)
(* Service controller: detect_sunshine_service, restart_sunshine           *)
(***************************************************************************)
\* What one subprocess.run of an external command can come to:
\*   "ok"        exit status 0
\*   "fail"      a non-zero exit status
\*   "timeout"   TimeoutExpired (only where the call passes timeout=)
\*   "notfound"  FileNotFoundError: the binary is missing
\*   "error"     another exception
Outcomes == {"ok", "fail", "timeout", "notfound", "error"}
NoTimeoutOutcomes == Outcomes \ {"timeout"}
Raises(o) == o \in {"timeout", "notfound", "error"}

\* the lines of a `brew services list` output: the service a line names and
\* whether the line holds the word "started"
ListingLines == [name : {"sunshine-beta", "sunshine", "other"}, started : BOOLEAN]
Listings == SeqsUpTo(ListingLines, MaxListing)

\* lines 192-200: the first line that names a sunshine service decides
RECURSIVE ScanListing(_)
ScanListing(lines) ==
    IF lines = <<>> THEN [service |-> "none", running |-> FALSE]
    ELSE IF lines[1].name = "sunshine-beta"
         THEN [service |-> "sunshine-beta", running |-> lines[1].started]
    ELSE IF lines[1].name = "sunshine"
         THEN [service |-> "sunshine", running |-> lines[1].started]
    ELSE ScanListing(Tail(lines))

\* lines 184-203: (None, False) when brew cannot be run
detect_sunshine_service(o, listing) ==
    IF Raises(o) THEN [service |-> "none", running |-> FALSE]
    ELSE ScanListing(listing)

\* lines 304, 323: the service labels, beta first
Labels == <<"homebrew.mxcl.sunshine-beta", "homebrew.mxcl.sunshine">>

KickPc == <<"kick_beta", "kick_primary">>
StopPc == <<"lc_stop_beta", "lc_stop_primary">>
StartPc == <<"lc_start_beta", "lc_start_primary">>

\* subprocess.run(command, ...) comes to o
Run(command, o) ==
    /\ cmdLog' = Append(cmdLog, command)
    /\ outLog' = Append(outLog, o)

RestartInit ==
    /\ StoreIdle
    /\ EnumIdle
    /\ PassIdle
    /\ rPc = "detect"
    /\ service = "none"
    /\ rOk = FALSE
    /\ rMsg = ""
    /\ rSucceeded = 0
    /\ cmdLog = <<>>
    /\ outLog = <<>>

\* restart_sunshine returns (ok, msg); strategy is the strategy whose command
\* exited 0, 0 when the return follows no such command
RestartReturn(ok, msg, strategy) ==
    /\ rPc' = "done"
    /\ rOk' = ok
    /\ rMsg' = msg
    /\ rSucceeded' = strategy

RestartGoto(label) ==
    /\ rPc' = label
    /\ UNCHANGED <<rOk, rMsg, rSucceeded>>

\* line 261: detect_sunshine_service(); line 264: if sunshine_service
RDetect(o, listing) ==
    /\ rPc = "detect"
    /\ Run(<<"brew", "services", "list">>, o)
    /\ service' = detect_sunshine_service(o, listing).service
    /\ RestartGoto(IF service' # "none" THEN "brew_restart" ELSE KickPc[1])
    /\ UNCHANGED <<storeVars, enumVars, passVars>>

\* RBrewRestart without the except clauses of lines 296-301: an exception of
\* the command leaves restart_sunshine
RBrewRestart_uncaught(o) ==
    /\ rPc = "brew_restart"
    /\ Run(<<"brew", "services", "restart", service>>, o)
    /\ IF o = "ok" THEN RestartReturn(TRUE, "Restarted via brew services", 1)
       ELSE IF o = "fail" THEN RestartGoto("brew_stop")
       ELSE RestartGoto("raised")
    /\ UNCHANGED <<service, storeVars, enumVars, passVars>>

\* lines 268-279: strategy 1, brew services restart (timeout=60).  An
\* exception leaves the try block of lines 265-301, past strategy 2.
RBrewRestart(o) ==
    /\ rPc = "brew_restart"
    /\ Run(<<"brew", "services", "restart", service>>, o)
    /\ IF o = "ok" THEN RestartReturn(TRUE, "Restarted via brew services", 1)
       ELSE IF o = "fail" THEN RestartGoto("brew_stop")
       ELSE RestartGoto(KickPc[1])
    /\ UNCHANGED <<service, storeVars, enumVars, passVars>>

\* lines 282-283: strategy 2, brew services stop (timeout=30), result unused
RBrewStop(o) ==
    /\ rPc = "brew_stop"
    /\ Run(<<"brew", "services", "stop", service>>, o)
    /\ RestartGoto(IF Raises(o) THEN KickPc[1] ELSE "brew_start")
    /\ UNCHANGED <<service, storeVars, enumVars, passVars>>

\* lines 284-294: strategy 2, brew services start (timeout=30)
RBrewStart(o) ==
    /\ rPc = "brew_start"
    /\ Run(<<"brew", "services", "start", service>>, o)
    /\ IF o = "ok"
       THEN RestartReturn(TRUE, "Force restarted via brew services", 2)
       ELSE RestartGoto(KickPc[1])
    /\ UNCHANGED <<service, storeVars, enumVars, passVars>>

\* What a subprocess.run argument vector makes the system execute.  With
\* shell=True and a list, Popen runs /bin/sh -c with the items of the list
\* after it: the shell takes the first item as the command text (here one
\* word, run as it is) and the others as its positional parameters $0, $1,
\* ..., which the command text does not use.  Without shell=True the list is
\* executed as it is.
Executed(command) ==
    IF command[1] = "/bin/sh" /\ command[2] = "-c" THEN <<command[3]>>
    ELSE command

\* lines 304-315: strategy 3, for label k.  subprocess.run is given the
\* argument list with shell=True, so what is executed is /bin/sh -c with the
\* list appended: the command string is "launchctl" alone and the other
\* items are the shell's positional parameters.
RKickstart(k, o) ==
    /\ rPc = KickPc[k]
    /\ Run(<<"/bin/sh", "-c", "launchctl", "kickstart", "-k",
             "gui/$(id -u)/", Labels[k]>>, o)
    /\ IF o = "ok"
       THEN RestartReturn(TRUE, "Restarted via launchctl kickstart", 3)
       ELSE RestartGoto(IF k < Len(Labels) THEN KickPc[k + 1] ELSE "id_u")
    /\ UNCHANGED <<service, storeVars, enumVars, passVars>>

\* lines 320-321: id -u; an exception leaves the try block of lines 318-340
RIdU(o) ==
    /\ rPc = "id_u"
    /\ Run(<<"id", "-u">>, o)
    /\ RestartGoto(IF Raises(o) THEN "pkill" ELSE StopPc[1])
    /\ UNCHANGED <<service, storeVars, enumVars, passVars>>

\* lines 325-328: strategy 4, launchctl stop of label k, result unused
RLaunchctlStop(k, o) ==
    /\ rPc = StopPc[k]
    /\ Run(<<"launchctl", "stop", "gui/<uid>/", Labels[k]>>, o)
    /\ RestartGoto(IF Raises(o) THEN "pkill" ELSE StartPc[k])
    /\ UNCHANGED <<service, storeVars, enumVars, passVars>>

\* lines 331-338: strategy 4, launchctl start of label k
RLaunchctlStart(k, o) ==
    /\ rPc = StartPc[k]
    /\ Run(<<"launchctl", "start", "gui/<uid>/", Labels[k]>>, o)
    /\ IF o = "ok"
       THEN RestartReturn(TRUE, "Restarted via launchctl stop/start", 4)
       ELSE RestartGoto(IF Raises(o) \/ k = Len(Labels) THEN "pkill"
                        ELSE StopPc[k + 1])
    /\ UNCHANGED <<service, storeVars, enumVars, passVars>>

\* lines 343-347: strategy 5, pkill -x sunshine with check=False.  pkill exits
\* 0 when it signalled a process and 1 when no process matched; the exit
\* status is not read.
RPkill(o) ==
    /\ rPc = "pkill"
    /\ Run(<<"pkill", "-x", "sunshine">>, o)
    /\ IF Raises(o)
       THEN RestartReturn(FALSE, "Could not restart: e", 0)
       ELSE RestartReturn(TRUE,
                "Force killed (service should auto-restart via launchd)",
                IF o = "ok" THEN 5 ELSE 0)
    /\ UNCHANGED <<service, storeVars, enumVars, passVars>>

RestartNext ==
    \/ rPc = "detect"
         /\ \E o \in NoTimeoutOutcomes, listing \in Listings : RDetect(o, listing)
    \/ \E o \in Outcomes : RBrewRestart(o)
    \/ \E o \in Outcomes : RBrewStop(o)
    \/ \E o \in Outcomes : RBrewStart(o)
    \/ \E k \in 1..Len(Labels), o \in NoTimeoutOutcomes : RKickstart(k, o)
    \/ \E o \in NoTimeoutOutcomes : RIdU(o)
    \/ \E k \in 1..Len(Labels), o \in NoTimeoutOutcomes : RLaunchctlStop(k, o)
    \/ \E k \in 1..Len(Labels), o \in NoTimeoutOutcomes : RLaunchctlStart(k, o)
    \/ \E o \in NoTimeoutOutcomes : RPkill(o)

SpecRestart == RestartInit /\ [][RestartNext]_vars

\* C3: restart_sunshine returns ok = TRUE only if a strategy succeeded, the
\* last resort counting only if pkill signalled a process; when every
\* strategy failed it returns ok = FALSE, and the message is never empty.
C3_OkOnlyIfSucceeded ==
    rPc = "done" => /\ rOk <=> rSucceeded # 0
                    /\ rMsg # ""

(***************************************************************************)
(* Service controller: is_sunshine_running, ensure_sunshine_running        *)
(***************************************************************************)
EKickPc == <<"e_kick_beta", "e_kick_primary">>

\* ensure_sunshine_running returns (ok, msg); strategy is 1 for brew services
\* start, 2 and 3 for the kickstart of the first and second label, 0 when no
\* start command succeeded
EnsureReturn(ok, msg, strategy) == RestartReturn(ok, msg, strategy)

\* lines 206-215 and 220-221: pgrep -x sunshine; exit status 0 means running,
\* an exception means not running
EPgrep(o) ==
    /\ rPc = "e_pgrep"
    /\ Run(<<"pgrep", "-x", "sunshine">>, o)
    /\ IF o = "ok" THEN EnsureReturn(TRUE, "Sunshine already running", 0)
       ELSE RestartGoto("e_detect")
    /\ UNCHANGED <<service, storeVars, enumVars, passVars>>

\* line 224: detect_sunshine_service(); line 227: if sunshine_service
EDetect(o, listing) ==
    /\ rPc = "e_detect"
    /\ Run(<<"brew", "services", "list">>, o)
    /\ service' = detect_sunshine_service(o, listing).service
    /\ RestartGoto(IF service' # "none" THEN "e_brew_start" ELSE "e_id_u")
    /\ UNCHANGED <<storeVars, enumVars, passVars>>

\* lines 228-237: brew services start, in a try block of its own
EBrewStart(o) ==
    /\ rPc = "e_brew_start"
    /\ Run(<<"brew", "services", "start", service>>, o)
    /\ IF o = "ok" THEN EnsureReturn(TRUE, "Started via brew services", 1)
       ELSE RestartGoto("e_id_u")
    /\ UNCHANGED <<service, storeVars, enumVars, passVars>>

\* lines 240-242: id -u, the first statement of the try block of lines
\* 240-253; an exception leaves the block, past the loop of line 244
EIdU(o) ==
    /\ rPc = "e_id_u"
    /\ Run(<<"id", "-u">>, o)
    /\ IF Raises(o) THEN EnsureReturn(FALSE, "Could not start Sunshine", 0)
       ELSE RestartGoto(EKickPc[1])
    /\ UNCHANGED <<service, storeVars, enumVars, passVars>>

\* lines 244-253: launchctl kickstart of label k, inside the same try block:
\* an exception ends the loop
EKickstart(k, o) ==
    /\ rPc = EKickPc[k]
    /\ Run(<<"launchctl", "kickstart", "gui/<uid>/", Labels[k]>>, o)
    /\ IF o = "ok" THEN EnsureReturn(TRUE, "Started via launchctl", k + 1)
       ELSE IF Raises(o) \/ k = Len(Labels)
            THEN EnsureReturn(FALSE, "Could not start Sunshine", 0)
            ELSE RestartGoto(EKickPc[k + 1])
    /\ UNCHANGED <<service, storeVars, enumVars, passVars>>

EnsureNext ==
    \/ \E o \in NoTimeoutOutcomes : EPgrep(o)
    \/ rPc = "e_detect"
         /\ \E o \in NoTimeoutOutcomes, listing \in Listings : EDetect(o, listing)
    \/ \E o \in NoTimeoutOutcomes : EBrewStart(o)
    \/ \E o \in NoTimeoutOutcomes : EIdU(o)
    \/ \E k \in 1..Len(Labels), o \in NoTimeoutOutcomes : EKickstart(k, o)

\* one call of restart_sunshine or of ensure_sunshine_running
ServiceInit ==
    /\ StoreIdle
    /\ EnumIdle
    /\ PassIdle
    /\ rPc \in {"detect", "e_pgrep"}
    /\ service = "none"
    /\ rOk = FALSE
    /\ rMsg = ""
    /\ rSucceeded = 0
    /\ cmdLog = <<>>
    /\ outLog = <<>>

ServiceNext == RestartNext \/ EnsureNext

SpecService == ServiceInit /\ [][ServiceNext]_vars

\* the operation keeps executing until it returns
SpecServiceFair == SpecService /\ WF_vars(ServiceNext)

(***************************************************************************)
(* Display matcher: find_display_by_name                                   *)
(***************************************************************************)
\* str.lower() of one character
LowerChar(c) ==
    CASE c = "T" -> "t" [] c = "V" -> "v" [] c = "L" -> "l" [] OTHER -> c

Lower(s) == [i \in 1..Len(s) |-> LowerChar(s[i])]

\* a in b, for texts
IsSubstring(a, b) ==
    \E i \in 0..(Len(b) - Len(a)) : SubSeq(b, i + 1, i + Len(a)) = a

\* the first record of ds whose index is in hits, NoDisplay when none is
FirstThat(ds, hits) ==
    IF hits # {}
    THEN ds[CHOOSE i \in hits : \A j \in hits : i <= j]
    ELSE NoDisplay

\* find_display_by_name without the first loop: the first record whose name
\* contains the name wins
find_display_by_name_partial_only(ds, display_name) ==
    FirstThat(ds, {i \in 1..Len(ds) :
                     IsSubstring(Lower(display_name), Lower(ds[i].name))})

\* lines 109-121, on the list get_displays returned
find_display_by_name(ds, display_name) ==
    LET exact == {i \in 1..Len(ds) : Lower(ds[i].name) = Lower(display_name)}
        partial == {i \in 1..Len(ds) :
                       IsSubstring(Lower(display_name), Lower(ds[i].name))}
    IN  IF FirstThat(ds, exact) # NoDisplay THEN FirstThat(ds, exact)
        ELSE FirstThat(ds, partial)

(***************************************************************************)
(* The commands                                                            *)
(***************************************************************************)
\* line 419: config.get("check_interval_seconds", 60)
DefaultInterval == 60

\* raw identifiers of the displays attached during a pass, and their names
PassRawIds == {<<"3">>, <<"a">>, <<>>}
PassNames == {<<"T", "V">>, <<"L", " ", "T", "V">>}
PassDisplays == [name : PassNames, id : {DisplayId(raw) : raw \in PassRawIds}]
PassDisplayLists == SeqsUpTo(PassDisplays, MaxPassDisplays)

\* what get_displays comes to inside find_display_by_name: a list, or one of
\* the exceptions it lets through (UncaughtOutcomes)
Queries ==
    [raised : {FALSE}, list : PassDisplayLists]
        \cup [raised : {TRUE}, list : {<<>>}]

\* names a display is looked up by
TargetNames == {<<"t", "v">>, <<"x">>}

\* config files a command finds: none, an empty one, one that stores an id
\* (alone or after another setting)
PassFiles ==
    {[exists |-> FALSE, content |-> <<>>], [exists |-> TRUE, content |-> <<>>]}
        \cup {[exists |-> TRUE, content |-> NewLine(d.id) \o <<NL>>] : d \in PassDisplays}
        \cup {[exists |-> TRUE, content |-> <<"1", NL>> \o NewLine(<<"3">>) \o <<NL>>]}

\* values of check_interval_seconds: a positive number, a negative number,
\* and a value that is no number (a JSON string)
IntervalValues ==
    {[number |-> TRUE, value |-> 30], [number |-> TRUE, value |-> -1],
     [number |-> FALSE, value |-> 0]}

SettingsFiles ==
    {NoSettings, [NoSettings EXCEPT !.kind = "malformed"]}
        \cup {[kind |-> "object", hasTarget |-> FALSE, target_display |-> <<>>,
               hasInterval |-> FALSE,
               check_interval_seconds |-> [number |-> TRUE, value |-> 0],
               no_auto_restart |-> FALSE]}
        \cup [kind : {"object"}, hasTarget : {TRUE},
              target_display : {<<>>, <<"t", "v">>},
              hasInterval : {TRUE}, check_interval_seconds : IntervalValues,
              no_auto_restart : BOOLEAN]
        \cup [kind : {"object"}, hasTarget : {TRUE},
              target_display : {<<"t", "v">>},
              hasInterval : {FALSE},
              check_interval_seconds : {[number |-> TRUE, value |-> 0]},
              no_auto_restart : {FALSE}]

\* time.sleep(secs) raises TypeError for a value that is no number and
\* ValueError for a negative one
SleepRaises(secs) == ~secs.number \/ secs.value < 0

(***************************************************************************)
(* SpecMatch: find_display_by_name on a list of records and a name         *)
(***************************************************************************)
\* names looked up: the names of TargetNames, "TV", "L" and the empty name
MatchQueries == TargetNames \cup {<<"T", "V">>, <<"L">>, <<>>}

MatchInit ==
    /\ StoreIdle
    /\ RestartIdle
    /\ enumState = "returned"
    /\ attempt = 0
    /\ runs = 0
    /\ sleeps = 0
    /\ lastOutcome = "none"
    /\ entries = <<>>
    /\ parsed = <<>>
    /\ displays \in PassDisplayLists
    /\ cmd = "none"
    /\ daemon = FALSE
    /\ noRestartArg = FALSE
    /\ settings = NoSettings
    /\ target \in MatchQueries
    /\ checkInterval = [number |-> TRUE, value |-> 0]
    /\ noRestart = FALSE
    /\ pc = "m_find"
    /\ outcome = "running"
    /\ display = NoDisplay
    /\ resolved = "none"
    /\ currentId = None
    /\ passes = 0
    /\ passFile = [exists |-> FALSE, content |-> <<>>]
    /\ passEnsures = 0
    /\ ensureOk = "none"
    /\ passResolves = 0
    /\ passWrites = 0
    /\ passRestarts = 0
    /\ restartOk = "none"
    /\ touched = FALSE
    /\ prevDisplay = NoDisplay
    /\ interrupted = FALSE

\* lines 106-121: find_display_by_name(target), get_displays returning displays
MatchFind ==
    /\ pc = "m_find"
    /\ display' = find_display_by_name(displays, target)
    /\ resolved' = IF display' = NoDisplay THEN "notfound" ELSE "found"
    /\ pc' = "done"
    /\ UNCHANGED <<storeVars, enumVars, restartVars, cmd, daemon, noRestartArg,
                   settings, target, checkInterval, noRestart, outcome,
                   currentId, passes, passFile, passEnsures, ensureOk,
                   passResolves, passWrites, passRestarts, restartOk, touched,
                   prevDisplay, interrupted>>

MatchNext == MatchFind

SpecMatch == MatchInit /\ [][MatchNext]_vars

\* the name of record i of displays equals the name looked up, and contains
\* it, letter case aside
NameEquals(i) == Lower(displays[i].name) = Lower(target)
NameContains(i) == IsSubstring(Lower(target), Lower(displays[i].name))

\* C12: find_display_by_name returns the first record whose name equals the
\* name case-insensitively when there is one (even after a record that only
\* contains the name), else the first record whose name contains it
\* case-insensitively, else None.
C12_ExactThenSubstring ==
    pc = "done" /\ cmd = "none" =>
        LET n == Len(displays)
        IN  /\ (\E i \in 1..n : NameEquals(i))
                 => \E i \in 1..n : /\ NameEquals(i)
                                    /\ \A j \in 1..(i - 1) : ~NameEquals(j)
                                    /\ display = displays[i]
            /\ ((\A i \in 1..n : ~NameEquals(i)) /\ (\E i \in 1..n : NameContains(i)))
                 => \E i \in 1..n : /\ NameContains(i)
                                    /\ \A j \in 1..(i - 1) : ~NameContains(j)
                                    /\ display = displays[i]
            /\ (\A i \in 1..n : ~NameContains(i)) => display = NoDisplay

\* the record named "TV" was returned for "tv" although the record before it,
\* "L TV", contains the name
C12_Witness ==
    /\ pc = "done" /\ cmd = "none"
    /\ Len(displays) >= 2
    /\ target = <<"t", "v">>
    /\ displays[1].name = <<"L", " ", "T", "V">>
    /\ displays[2].name = <<"T", "V">>
    /\ display = displays[2]

\* no_restart without the setting: only the flag counts
no_restart_flag_only(flag, s) == flag

\* line 420, and line 75 of the auto-update script: the flag or the setting
no_restart(flag, s) == flag \/ s.no_auto_restart

PassInit ==
    /\ EnumIdle
    /\ RestartIdle
    /\ arg = <<>>
    /\ before = [exists |-> FALSE, content |-> <<>>]
    /\ nWrites = 0
    /\ readVal = None
    /\ \E f \in PassFiles : fileExists = f.exists /\ conf = f.content
    /\ cmd \in {"update", "watch", "auto"}
    /\ daemon \in BOOLEAN
    /\ cmd # "watch" => daemon = FALSE
    /\ noRestartArg \in BOOLEAN
    /\ settings \in SettingsFiles
    /\ cmd = "update" => settings = NoSettings
    /\ target \in (IF cmd = "update" THEN TargetNames ELSE {<<>>})
    /\ checkInterval = [number |-> TRUE, value |-> 0]
    /\ noRestart = FALSE
    /\ pc = "start"
    /\ outcome = "running"
    /\ display = NoDisplay
    /\ resolved = "none"
    /\ currentId = None
    /\ passes = 0
    /\ passFile = [exists |-> fileExists, content |-> conf]
    /\ passEnsures = 0
    /\ ensureOk = "none"
    /\ passResolves = 0
    /\ passWrites = 0
    /\ passRestarts = 0
    /\ restartOk = "none"
    /\ touched = FALSE
    /\ prevDisplay = NoDisplay
    /\ interrupted = FALSE

storeAux == <<arg, before, nWrites, readVal>>
fileVars == <<fileExists, conf>>
argVars == <<cmd, daemon, noRestartArg, settings>>
confVars == <<target, checkInterval, noRestart>>
passCounters == <<passes, passFile, passEnsures, ensureOk, passResolves, passWrites,
                  passRestarts, restartOk>>
calleeVars == <<storeAux, enumVars, restartVars>>
otherVars == <<calleeVars, argVars, prevDisplay, interrupted>>

\* the command ends: sys.exit(code) or return code from main
Exit(code) ==
    /\ pc' = "done"
    /\ outcome' = IF code = 0 THEN "exit0" ELSE "exit1"

\* an exception leaves the command: "exception" for an Exception (traceback,
\* exit status 1), "interrupt" for KeyboardInterrupt
Propagate(kind) ==
    /\ pc' = "done"
    /\ outcome' = kind

Goto(label) ==
    /\ pc' = label
    /\ UNCHANGED outcome

\* a reconcile pass begins
BeginPass ==
    /\ passes' = passes + 1
    /\ passFile' = [exists |-> fileExists, content |-> conf]
    /\ passWrites' = 0
    /\ passRestarts' = 0
    /\ restartOk' = "none"

(***************************************************************************)
(* update <display_name> [--no-restart]: cmd_update                        *)
(***************************************************************************)
\* lines 364-365
U_Start ==
    /\ cmd = "update" /\ pc = "start"
    /\ noRestart' = noRestartArg
    /\ Goto("u_resolve")
    /\ UNCHANGED <<target, checkInterval, display, resolved, currentId, passCounters,
                   touched, fileVars, otherVars>>

\* lines 367-376: find_display_by_name; when it returns None the displays
\* are listed and the command returns 1
U_Resolve(q) ==
    /\ cmd = "update" /\ pc = "u_resolve"
    /\ BeginPass
    /\ passEnsures' = 0
    /\ ensureOk' = "none"
    /\ passResolves' = 1
    /\ touched' = TRUE
    /\ IF q.raised
       THEN Propagate("exception") /\ resolved' = "raised" /\ UNCHANGED display
       ELSE /\ display' = find_display_by_name(q.list, target)
            /\ resolved' = IF display' = NoDisplay THEN "notfound" ELSE "found"
            /\ IF display' = NoDisplay THEN Goto("u_list") ELSE Goto("u_write")
    /\ UNCHANGED <<confVars, currentId, fileVars, otherVars>>

\* lines 373-376: the second get_displays, for the listing
U_List(q) ==
    /\ cmd = "update" /\ pc = "u_list"
    /\ IF q.raised THEN Propagate("exception") ELSE Exit(1)
    /\ UNCHANGED <<confVars, display, resolved, currentId, passCounters, touched,
                   fileVars, otherVars>>

\* lines 383-386 and 389, 397-401: update_sunshine_config, whatever the file
\* stores; failed stands for an OSError of mkdir or open
U_Write(failed) ==
    /\ cmd = "update" /\ pc = "u_write"
    /\ touched' = TRUE
    /\ passWrites' = passWrites + 1
    /\ IF failed
       THEN Propagate("exception") /\ UNCHANGED fileVars
       ELSE /\ conf' = update_sunshine_config(fileExists, conf, display.id)
            /\ fileExists' = TRUE
            /\ IF noRestart THEN Exit(0) ELSE Goto("u_restart")
    /\ UNCHANGED <<confVars, display, resolved, currentId, passes, passFile, passEnsures,
                   ensureOk, passResolves, passRestarts,
                   restartOk, otherVars>>

\* lines 389-396, 401: restart_sunshine; its result is only printed
U_Restart(ok) ==
    /\ cmd = "update" /\ pc = "u_restart"
    /\ touched' = TRUE
    /\ passRestarts' = passRestarts + 1
    /\ restartOk' = IF ok THEN "ok" ELSE "failed"
    /\ Exit(0)
    /\ UNCHANGED <<confVars, display, resolved, currentId, passes, passFile, passEnsures,
                   ensureOk, passResolves, passWrites,
                   fileVars, otherVars>>

(***************************************************************************)
(* auto_update_sunshine_display.py: load_config, main                      *)
(***************************************************************************)
\* load_config, lines 24-45, and main, lines 73-75: the file must exist,
\* parse, and hold the key target_display
A_Load ==
    /\ cmd = "auto" /\ pc = "start"
    /\ IF settings.kind # "object" \/ ~settings.hasTarget
       THEN Exit(1) /\ UNCHANGED <<target, noRestart>>
       ELSE /\ target' = settings.target_display
            /\ noRestart' = no_restart(noRestartArg, settings)
            /\ Goto("a_resolve")
    /\ UNCHANGED <<checkInterval, display, resolved, currentId, passCounters, touched,
                   fileVars, otherVars>>

\* lines 79-85
A_Resolve(q) ==
    /\ cmd = "auto" /\ pc = "a_resolve"
    /\ BeginPass
    /\ passEnsures' = 0
    /\ ensureOk' = "none"
    /\ passResolves' = 1
    /\ touched' = TRUE
    /\ IF q.raised
       THEN Propagate("exception") /\ resolved' = "raised" /\ UNCHANGED display
       ELSE /\ display' = find_display_by_name(q.list, target)
            /\ resolved' = IF display' = NoDisplay THEN "notfound" ELSE "found"
            /\ IF display' = NoDisplay THEN Exit(1) ELSE Goto("a_compare")
    /\ UNCHANGED <<confVars, currentId, fileVars, otherVars>>

\* lines 91-96: get_current_sunshine_display of the script, the same code as
\* lines 164-181 of the module
A_Compare ==
    /\ cmd = "auto" /\ pc = "a_compare"
    /\ currentId' = get_current_sunshine_display(fileExists, conf)
    /\ IF currentId' = display.id THEN Exit(0) ELSE Goto("a_write")
    /\ UNCHANGED <<confVars, display, resolved, passCounters, touched, fileVars, otherVars>>

\* lines 100-105, 112-113
A_Write(failed) ==
    /\ cmd = "auto" /\ pc = "a_write"
    /\ touched' = TRUE
    /\ passWrites' = passWrites + 1
    /\ IF failed
       THEN Propagate("exception") /\ UNCHANGED fileVars
       ELSE /\ conf' = update_sunshine_config(fileExists, conf, display.id)
            /\ fileExists' = TRUE
            /\ IF noRestart THEN Exit(0) ELSE Goto("a_restart")
    /\ UNCHANGED <<confVars, display, resolved, currentId, passes, passFile, passEnsures,
                   ensureOk, passResolves, passRestarts,
                   restartOk, otherVars>>

\* lines 105-111: main then ends, with exit status 0
A_Restart(ok) ==
    /\ cmd = "auto" /\ pc = "a_restart"
    /\ touched' = TRUE
    /\ passRestarts' = passRestarts + 1
    /\ restartOk' = IF ok THEN "ok" ELSE "failed"
    /\ Exit(0)
    /\ UNCHANGED <<confVars, display, resolved, currentId, passes, passFile, passEnsures,
                   ensureOk, passResolves, passWrites,
                   fileVars, otherVars>>

(***************************************************************************)
(* watch [--no-restart] [--daemon]: cmd_watch                              *)
(***************************************************************************)
\* statements of the loop inside the try block of lines 435-473
TryLabels == {"w_ensure", "w_resolve", "w_compare", "w_write", "w_restart",
              "w_exitcheck", "w_sleep", "w_sleep_notfound"}
\* statements of the handler of lines 478-482
HandlerLabels == {"w_handler", "w_sleep_handler"}

\* lines 408-421: load_config of lines 22-34 returns None for a missing or
\* malformed file; an empty object and an absent or empty target_display are
\* falsy
W_Load ==
    /\ cmd = "watch" /\ pc = "start"
    /\ IF settings.kind # "object" \/ ~settings.hasTarget
            \/ settings.target_display = <<>>
       THEN Exit(1) /\ UNCHANGED confVars
       ELSE /\ target' = settings.target_display
            /\ checkInterval' = IF settings.hasInterval
                                THEN settings.check_interval_seconds
                                ELSE [number |-> TRUE, value |-> DefaultInterval]
            /\ noRestart' = no_restart(noRestartArg, settings)
            /\ Goto("w_ensure")
    /\ UNCHANGED <<display, resolved, currentId, passCounters, touched, fileVars, otherVars>>

\* W_Ensure with a failure result ending the iteration: the check interval
\* is slept and the next iteration begins
W_Ensure_failure_skips(ok) ==
    /\ cmd = "watch" /\ pc = "w_ensure"
    /\ passes < MaxPasses
    /\ BeginPass
    /\ passEnsures' = 1
    /\ ensureOk' = IF ok THEN "ok" ELSE "failed"
    /\ passResolves' = 0
    /\ touched' = TRUE
    /\ display' = NoDisplay
    /\ resolved' = "none"
    /\ currentId' = None
    /\ Goto(IF ok THEN "w_resolve" ELSE "w_sleep_notfound")
    /\ UNCHANGED <<confVars, fileVars, otherVars>>

\* lines 434-441: an iteration begins with ensure_sunshine_running, whose
\* result is only printed
W_Ensure(ok) ==
    /\ cmd = "watch" /\ pc = "w_ensure"
    /\ passes < MaxPasses
    /\ BeginPass
    /\ passEnsures' = 1
    /\ ensureOk' = IF ok THEN "ok" ELSE "failed"
    /\ passResolves' = 0
    /\ touched' = TRUE
    /\ display' = NoDisplay
    /\ resolved' = "none"
    /\ currentId' = None
    /\ Goto("w_resolve")
    /\ UNCHANGED <<confVars, fileVars, otherVars>>

\* lines 443-449
W_Resolve(q) ==
    /\ cmd = "watch" /\ pc = "w_resolve"
    /\ passResolves' = passResolves + 1
    /\ IF q.raised
       THEN Goto("w_handler") /\ resolved' = "raised" /\ UNCHANGED display
       ELSE /\ display' = find_display_by_name(q.list, target)
            /\ resolved' = IF display' = NoDisplay THEN "notfound" ELSE "found"
            /\ IF display' = NoDisplay
               THEN Goto("w_sleep_notfound") ELSE Goto("w_compare")
    /\ UNCHANGED <<confVars, currentId, passes, passFile, passEnsures,
                   ensureOk, passWrites, passRestarts,
                   restartOk, touched, fileVars,
                   otherVars>>

\* lines 451-453
W_Compare ==
    /\ cmd = "watch" /\ pc = "w_compare"
    /\ currentId' = get_current_sunshine_display(fileExists, conf)
    /\ IF currentId' # display.id THEN Goto("w_write") ELSE Goto("w_exitcheck")
    /\ UNCHANGED <<confVars, display, resolved, passCounters, touched, fileVars, otherVars>>

\* lines 457-462
W_Write(failed) ==
    /\ cmd = "watch" /\ pc = "w_write"
    /\ passWrites' = passWrites + 1
    /\ IF failed
       THEN Goto("w_handler") /\ UNCHANGED fileVars
       ELSE /\ conf' = update_sunshine_config(fileExists, conf, display.id)
            /\ fileExists' = TRUE
            /\ IF noRestart THEN Goto("w_exitcheck") ELSE Goto("w_restart")
    /\ UNCHANGED <<confVars, display, resolved, currentId, passes, passFile, passEnsures,
                   ensureOk, passResolves, passRestarts,
                   restartOk, touched, otherVars>>

\* lines 462-467
W_Restart(ok) ==
    /\ cmd = "watch" /\ pc = "w_restart"
    /\ passRestarts' = passRestarts + 1
    /\ restartOk' = IF ok THEN "ok" ELSE "failed"
    /\ Goto("w_exitcheck")
    /\ UNCHANGED <<confVars, display, resolved, currentId, passes, passFile, passEnsures,
                   ensureOk, passResolves, passWrites,
                   touched, fileVars, otherVars>>

\* lines 469-471
W_ExitCheck ==
    /\ cmd = "watch" /\ pc = "w_exitcheck"
    /\ IF ~daemon THEN Exit(0) ELSE Goto("w_sleep")
    /\ UNCHANGED <<confVars, display, resolved, currentId, passCounters, touched,
                   fileVars, otherVars>>

\* lines 448-449 and 473: time.sleep(check_interval) inside the try block,
\* then the next iteration; a sleep that raises goes to the handler
W_Sleep ==
    /\ cmd = "watch" /\ pc \in {"w_sleep", "w_sleep_notfound"}
    /\ IF SleepRaises(checkInterval) THEN Goto("w_handler") ELSE Goto("w_ensure")
    /\ prevDisplay' = IF pc = "w_sleep" /\ ~SleepRaises(checkInterval)
                      THEN display ELSE NoDisplay
    /\ UNCHANGED <<confVars, display, resolved, currentId, passCounters, touched,
                   fileVars, calleeVars, argVars, interrupted>>

\* lines 478-481: except Exception
W_Handler ==
    /\ cmd = "watch" /\ pc = "w_handler"
    /\ IF ~daemon THEN Exit(1) ELSE Goto("w_sleep_handler")
    /\ UNCHANGED <<confVars, display, resolved, currentId, passCounters, touched,
                   fileVars, otherVars>>

\* line 482: time.sleep(check_interval) inside the handler: an exception it
\* raises is inside no try block
W_HandlerSleep ==
    /\ cmd = "watch" /\ pc = "w_sleep_handler"
    /\ IF SleepRaises(checkInterval) THEN Propagate("exception") ELSE Goto("w_ensure")
    /\ prevDisplay' = NoDisplay
    /\ UNCHANGED <<confVars, display, resolved, currentId, passCounters, touched,
                   fileVars, calleeVars, argVars, interrupted>>

\* SIGINT raises KeyboardInterrupt at the statement being executed: inside
\* the try block lines 475-477 return 0; inside the handler of lines 478-482
\* no except clause applies
W_Interrupt ==
    /\ cmd = "watch" /\ pc \in TryLabels \cup HandlerLabels
    /\ interrupted' = TRUE
    /\ IF pc \in TryLabels THEN Exit(0) ELSE Propagate("interrupt")
    /\ UNCHANGED <<confVars, display, resolved, currentId, passCounters, touched,
                   fileVars, calleeVars, argVars, prevDisplay>>

PassNext ==
    \/ U_Start
    \/ \E q \in Queries : U_Resolve(q)
    \/ \E q \in Queries : U_List(q)
    \/ \E failed \in BOOLEAN : U_Write(failed)
    \/ \E ok \in BOOLEAN : U_Restart(ok)
    \/ A_Load
    \/ \E q \in Queries : A_Resolve(q)
    \/ A_Compare
    \/ \E failed \in BOOLEAN : A_Write(failed)
    \/ \E ok \in BOOLEAN : A_Restart(ok)
    \/ W_Load
    \/ \E ok \in BOOLEAN : W_Ensure(ok)
    \/ \E q \in Queries : W_Resolve(q)
    \/ W_Compare
    \/ \E failed \in BOOLEAN : W_Write(failed)
    \/ \E ok \in BOOLEAN : W_Restart(ok)
    \/ W_ExitCheck
    \/ W_Sleep
    \/ W_Handler
    \/ W_HandlerSleep
    \/ W_Interrupt

SpecPass == PassInit /\ [][PassNext]_vars

(***************************************************************************)
(* Properties of the commands                                              *)
(***************************************************************************)
\* the id the config file stored when the pass began, as the config store
\* reads it
StoredAtPassStart ==
    get_current_sunshine_display(passFile.exists, passFile.content)

\* the settings file gives no target name: it is missing or malformed, lacks
\* target_display, or gives it the empty string
NoTargetName ==
    \/ settings.kind # "object"
    \/ ~settings.hasTarget
    \/ settings.target_display = <<>>

\* C1: in every reconcile pass (update, the auto-update script, an iteration
\* of watch), when the stored output_name equals the id of the resolved
\* display the pass writes no config and calls no restart, and a one-shot
\* pass exits 0.
C1_NoWriteNoRestartWhenEqual ==
    (passes >= 1 /\ display # NoDisplay /\ StoredAtPassStart = display.id)
        => /\ passWrites = 0
           /\ passRestarts = 0
           /\ (cmd \in {"update", "auto"} /\ pc = "done") => outcome = "exit0"

\* C2: without --daemon, watch ends after exactly one iteration, with one
\* ensure_sunshine_running call and one display resolution, and returns 0
\* when the display was found and 1 when it was not found or an exception
\* was raised.
C2_OneIterationWithoutDaemon ==
    (cmd = "watch" /\ ~daemon /\ ~interrupted)
        => /\ passes <= 1
           /\ (pc = "done" /\ passes = 1)
                => /\ passEnsures = 1
                   /\ passResolves = 1
                   /\ outcome \in {"exit0", "exit1"}
                   /\ display = NoDisplay => outcome = "exit1"

\* C4: with --daemon, whatever settings were accepted at startup and whatever
\* exception other than an interrupt an iteration raises, watch does not
\* return and no exception leaves it.
C4_DaemonSurvivesFailures ==
    (cmd = "watch" /\ daemon /\ passes >= 1 /\ ~interrupted)
        => outcome = "running"

\* C5: an interrupt at any point of the watch loop makes watch return 0.
C5_InterruptReturnsZero ==
    interrupted => outcome = "exit0"

\* C9: watch and the auto-update script reject settings without a target
\* name at startup, with a non-zero exit and before any display query,
\* config write or service command: no pass runs with an absent or empty
\* target name.
C9_NoPassWithoutTargetName ==
    (cmd \in {"watch", "auto"} /\ NoTargetName)
        => /\ passes = 0
           /\ ~touched
           /\ pc = "done" => outcome = "exit1"


\* C11: when the target display is not found, the pass writes no config and
\* calls no restart; update and the auto-update script end with exit status
\* 1 (an exception that leaves the command also ends it with status 1), and
\* watch with --daemon sleeps and goes on to the next iteration.
C11_NotFoundSkipsPass ==
    resolved = "notfound"
        => /\ passWrites = 0
           /\ passRestarts = 0
           /\ fileExists = passFile.exists /\ conf = passFile.content
           /\ (cmd \in {"update", "auto"} /\ pc = "done")
                => outcome \in {"exit1", "exception"}
           /\ (cmd = "watch" /\ daemon /\ ~interrupted) => outcome = "running"


\* C13: when a pass has written the new id and restart_sunshine then reports
\* failure, the config file stays as the write left it, a one-shot pass
\* still exits 0 and a pass of watch with --daemon goes on to the next
\* iteration.
C13_RestartFailureIsWarning ==
    (restartOk = "failed" /\ ~interrupted)
        => /\ passWrites = 1
           /\ fileExists
           /\ conf = update_sunshine_config(passFile.exists, passFile.content,
                                            display.id)
           /\ (pc = "done" /\ ~daemon) => outcome = "exit0"
           /\ daemon => outcome = "running"

\* restart is suppressed: --no-restart was given, or (watch and the
\* auto-update script) the settings hold no_auto_restart = true
SuppressRestart ==
    \/ noRestartArg
    \/ cmd \in {"watch", "auto"} /\ settings.kind = "object"
                                 /\ settings.no_auto_restart

\* C14: when restart is suppressed no pass calls restart_sunshine, and a
\* pass that found the stored id different from the display's id (update:
\* any pass that found the display) and ran to its end has written the
\* config once.
C14_SuppressedRestartStillWrites ==
    SuppressRestart
        => /\ passRestarts = 0
           /\ restartOk = "none"
           /\ pc # "u_restart" /\ pc # "a_restart" /\ pc # "w_restart"
           /\ (/\ resolved = "found"
               /\ cmd = "update" \/ StoredAtPassStart # display.id
               /\ pc = "w_exitcheck" \/ outcome = "exit0"
               /\ ~interrupted)
                => /\ passWrites = 1
                   /\ fileExists
                   /\ conf = update_sunshine_config(passFile.exists,
                                                    passFile.content, display.id)

\* the setting alone suppressed the restart: a pass of watch or of the
\* auto-update script has written the config and ended without a restart
C14_Witness ==
    /\ ~noRestartArg
    /\ settings.no_auto_restart
    /\ cmd \in {"watch", "auto"}
    /\ passWrites = 1
    /\ passRestarts = 0
    /\ pc = "w_exitcheck" \/ outcome = "exit0"
    /\ ~interrupted

\* C15: whatever each external command comes to (exit 0, a non-zero exit, a
\* timeout, a missing binary, another exception), restart_sunshine and
\* ensure_sunshine_running let no exception through, and they end, returning
\* a pair (ok, message) with a non-empty message.
C15_ReturnsPairWhateverHappens ==
    /\ [](/\ rPc # "raised"
          /\ rPc = "done" => rOk \in BOOLEAN /\ rMsg # "")
    /\ <>(rPc = "done")

\* a call has returned after a command that raised: restart_sunshine after
\* its brew services restart timed out, or either operation reporting failure
C15_Witness ==
    /\ rPc = "done"
    /\ \E i \in 1..Len(outLog) : Raises(outLog[i])
    /\ ~rOk \/ outLog[2] = "timeout"

\* the strategy of restart_sunshine a command belongs to, 0 for the commands
\* that belong to none (brew services list, id -u)
StrategyOf(command) ==
    CASE command[1] = "brew" /\ command[3] = "restart" -> 1
      [] command[1] = "brew" /\ command[3] \in {"stop", "start"} -> 2
      [] command[1] = "/bin/sh" -> 3
      [] command[1] = "launchctl" -> 4
      [] command[1] = "pkill" -> 5
      [] OTHER -> 0

\* a stop command: its result decides nothing
IsStop(command) ==
    \/ command[1] = "brew" /\ command[3] = "stop"
    \/ command[1] = "launchctl" /\ command[2] = "stop"

\* C17: restart_sunshine tries its strategies strictly in order, each only
\* after all the strategies before it failed, and the first success ends the
\* chain.  When a variant was detected, a command of strategy 2 runs only
\* after brew services restart failed, and a command of strategy 3, 4 or 5
\* only after brew services start, too, ran and failed (whatever way the
\* restart failed, and whatever the stop came to); strategies 4 and 5 run
\* only after the kickstart of both labels failed; a command that succeeds,
\* stop commands aside, is the last one; and a call that returns after no
\* success has run strategy 5.
C17_StrategiesInOrder ==
    LET n == Len(cmdLog)
        brewAt(verb) == {j \in 1..n : cmdLog[j][1] = "brew" /\ cmdLog[j][3] = verb}
        kickAt(label) == {j \in 1..n : /\ StrategyOf(cmdLog[j]) = 3
                                       /\ cmdLog[j][Len(cmdLog[j])] = label}
        succeeded == {j \in 1..n : /\ StrategyOf(cmdLog[j]) >= 1
                                   /\ ~IsStop(cmdLog[j])
                                   /\ outLog[j] = "ok"}
    IN  /\ \A i \in 1..n :
            LET k == StrategyOf(cmdLog[i])
            IN  /\ k >= 1 => \A j \in 1..(i - 1) : StrategyOf(cmdLog[j]) <= k
                /\ (k >= 2 /\ service # "none")
                     => \E j \in brewAt("restart") : j < i /\ outLog[j] # "ok"
                /\ (k >= 3 /\ service # "none")
                     => \E j \in brewAt("start") : j < i /\ outLog[j] # "ok"
                /\ k >= 4
                     => \A l \in 1..Len(Labels) :
                            \E j \in kickAt(Labels[l]) : j < i /\ outLog[j] # "ok"
        /\ \A i \in succeeded :
               i = n /\ rPc = "done" /\ rOk /\ rSucceeded = StrategyOf(cmdLog[i])
        /\ (rPc = "done" /\ succeeded = {}) => StrategyOf(cmdLog[n]) = 5

\* a start command of ensure_sunshine_running
IsStart(command) ==
    \/ command[1] = "brew" /\ command[3] = "start"
    \/ command[1] = "launchctl" /\ command[2] = "kickstart"

\* C18: ensure_sunshine_running returns success without a start or kickstart
\* command when pgrep shows the process; otherwise it tries brew services
\* start on the detected variant (none detected: skipped), then the
\* kickstart of the beta label, then that of the primary label, stops at the
\* first that succeeds, and returns failure only after every one of them ran
\* and failed.
C18_EnsureStartsInOrder ==
    (cmdLog # <<>> /\ cmdLog[1][1] = "pgrep") =>
        LET n == Len(cmdLog)
            starts == {j \in 1..n : IsStart(cmdLog[j])}
            brewAt == {j \in starts : cmdLog[j][1] = "brew"}
            kickAt(label) == {j \in starts : /\ cmdLog[j][1] = "launchctl"
                                             /\ cmdLog[j][Len(cmdLog[j])] = label}
        IN  /\ outLog[1] = "ok" => n = 1 /\ rPc = "done" /\ rOk
            /\ \A i \in kickAt(Labels[1]) : \A j \in brewAt : j < i
            /\ \A i \in kickAt(Labels[2]) : \E j \in kickAt(Labels[1]) : j < i
            /\ \A i \in starts :
                   /\ \A j \in starts : j < i => outLog[j] # "ok"
                   /\ outLog[i] = "ok" => i = n /\ rPc = "done" /\ rOk
            /\ (rPc = "done" /\ rOk) => outLog[n] = "ok"
            /\ (rPc = "done" /\ ~rOk)
                 => /\ service # "none" => brewAt # {}
                    /\ \A l \in 1..Len(Labels) : kickAt(Labels[l]) # {}
                    /\ \A j \in starts : outLog[j] # "ok"

\* the number a text of decimal digits denotes
RECURSIVE DecValue(_)
DecValue(s) ==
    IF s = <<>> THEN 0
    ELSE 10 * DecValue(SubSeq(s, 1, Len(s) - 1))
         + (CHOOSE d \in 0..9 : DecDigit[d + 1] = s[Len(s)])

\* a decimal numeral as str() writes it: digits only, no leading zero
IsDecimal(s) ==
    /\ s # <<>>
    /\ \A i \in 1..Len(s) : \E d \in 1..10 : DecDigit[d] = s[i]
    /\ Len(s) > 1 => s[1] # "0"

\* the places i..j of the hex digits of a raw identifier that is a base-16
\* numeral, blanks around it aside (int() ignores them), {} when it is none
HexCore(raw) ==
    {p \in (1..Len(raw)) \X (1..Len(raw)) :
        /\ p[1] <= p[2]
        /\ \A i \in 1..Len(raw) :
               IF i < p[1] \/ i > p[2] THEN raw[i] \in WS
               ELSE raw[i] \in HexDigits}

\* C16: the id of every record get_displays builds is the decimal numeral of
\* the number its raw identifier denotes in base 16 when the raw identifier
\* is a base-16 numeral ("a" gives "10"), and the raw identifier itself
\* otherwise ("x" stays "x").
C16_HexIdsBecomeDecimal ==
    /\ Len(parsed) = Len(entries)
    /\ \A i \in 1..Len(entries) :
           LET raw == entries[i].raw
               id == parsed[i].id
           IN  IF HexCore(raw) # {}
               THEN /\ IsDecimal(id)
                    /\ \A p \in HexCore(raw) :
                           DecValue(id) = HexInt(SubSeq(raw, p[1], p[2]))
               ELSE id = raw

\* get_displays returned a record whose raw identifier "a" became "10", or
\* one whose raw identifier is no numeral and was kept
C16_Witness ==
    /\ enumState = "returned"
    /\ displays # <<>>
    /\ \/ entries[1].raw = <<"a">> /\ displays[1].id = <<"1", "0">>
       \/ entries[1].raw = <<"a", "a">> /\ displays[1].id = <<"1", "7", "0">>

\* C19: read-after-write round trip: whatever the file held, and for every
\* id get_displays can produce, a get_current_sunshine_display() made after
\* update_sunshine_config(id) returns id.  (A step that leaves nWrites
\* unchanged is a read.)
C19_ReadAfterWrite ==
    [][(nWrites >= 1 /\ nWrites' = nWrites) => readVal' = arg]_vars

\* C20: in daemon mode, when an iteration resolves the same record as the
\* iteration before it, which ran to its end, and nothing but the program
\* writes the config file, the iteration writes no config and calls no
\* restart.  (At w_ensure the next iteration has not begun: display is still
\* the record of the iteration that ended.)
C20_StableDisplayNoRewrite ==
    (cmd = "watch" /\ daemon /\ passes >= 2 /\ pc \notin {"w_ensure", "done"}
        /\ prevDisplay # NoDisplay /\ display = prevDisplay)
        => passWrites = 0 /\ passRestarts = 0

\* C21: every iteration of watch, with --daemon or without, calls
\* ensure_sunshine_running exactly once, before it resolves the display,
\* reads the stored id, writes the config or restarts the service; a failure
\* result of the call is only printed: the iteration goes on to resolve the
\* display.
C21_EnsureFirstInEveryIteration ==
    /\ [](cmd = "watch" =>
            /\ passes >= 1 => passEnsures = 1 /\ ensureOk # "none"
            /\ (passResolves >= 1 \/ currentId # None \/ passWrites >= 1
                    \/ passRestarts >= 1) => passEnsures = 1
            /\ (passes >= 1 /\ ensureOk = "failed" /\ ~interrupted
                    /\ pc # "w_resolve") => passResolves = 1)
    /\ [][(cmd = "watch" /\ passes' = passes) =>
            /\ passEnsures' = passEnsures /\ ensureOk' = ensureOk
            /\ (passResolves' # passResolves \/ currentId' # currentId
                    \/ passWrites' # passWrites \/ passRestarts' # passRestarts)
                 => passEnsures = 1]_vars

\* after ensure_sunshine_running reported failure, a second iteration of
\* watch went on to write the config
C21_Witness ==
    /\ cmd = "watch"
    /\ passes = 2
    /\ ensureOk = "failed"
    /\ passResolves = 1
    /\ passWrites = 1
    /\ pc = "w_exitcheck"

\* C22: strategy 3 of restart_sunshine runs, for the beta label and then for
\* the primary label, launchctl kickstart -k gui/<uid>/<label>, <uid> being
\* the numeric id of the user: the command executed has exactly these
\* arguments.
C22_KickstartArguments ==
    LET kicks == SelectSeq(cmdLog, LAMBDA c : StrategyOf(c) = 3)
    IN  /\ Len(kicks) <= Len(Labels)
        /\ \A l \in 1..Len(kicks) :
               Executed(kicks[l]) = <<"launchctl", "kickstart", "-k",
                                      "gui/<uid>/", Labels[l]>>

====
